---------------------------- MODULE Spec2Model ----------------------------
(***************************************************************************)
(* Model of the command matcher of main9.py (class CommandMatcher) and of  *)
(* the threads that use it: one output-monitor thread per child process    *)
(* (VOICE, OCR, GUI), which calls add_command, and the cleanup thread,     *)
(* which calls cleanup_old_commands.                                       *)
(*                                                                         *)
(* Strings are sequences of one-character strings, so that lower() and     *)
(* strip() are computed and not assumed.  time.time() is the variable now, *)
(* the system clock in seconds since the epoch: the code takes whatever    *)
(* value it has, so the clock ranges over 0..MaxTime, and it never runs    *)
(* backwards.  add_command holds self.lock from its first statement to its *)
(* return, so the part before the call of _execute_command is one step and *)
(* the return of _execute_command with the reset is another.               *)
(***************************************************************************)
EXTENDS Integers, Sequences, FiniteSets, TLC

(***************************************************************************)
(* Bounds of the model.                                                    *)
(***************************************************************************)
\* CommandMatcher(timeout=...): the match window, scaled down
Timeout == 2
\* add_command is modelled up to clock value Timeout + Extra
Extra == 1
\* number of add_command calls in one behaviour
MaxCalls == 3

\* length of the raw tokens enumerated for _clean_command
NormMaxLen == 3

\* lines the child processes write in one behaviour of the loops
LoopMaxLines == 2
\* the clock of the loops is modelled up to this value
LoopMaxTime == 1

\* respawns of one child process in one behaviour
MaxRestarts == 1
\* add_command calls in one behaviour of the whole system
SysMaxCalls == 2
\* the clock of the whole system is modelled up to this value
SysMaxTime == 1

MaxStamp == Timeout + Extra
MaxTime == MaxStamp + Timeout + 1

(***************************************************************************)
(* Strings.                                                                *)
(***************************************************************************)
UpperChars == <<"A","B","C","D","E","F","G","H","I","J","K","L","M",
                "N","O","P","Q","R","S","T","U","V","W","X","Y","Z">>
LowerChars == <<"a","b","c","d","e","f","g","h","i","j","k","l","m",
                "n","o","p","q","r","s","t","u","v","w","x","y","z">>
Whitespace == {" ", "\t", "\n", "\r"}

\* Python's None; no string equals it
None == <<"<None>">>

\* truth value of a str-or-None: None and '' are false
Truthy(x) == x # None /\ x # <<>>

LowerChar(c) ==
  IF \E i \in 1..Len(UpperChars) : UpperChars[i] = c
  THEN LowerChars[CHOOSE i \in 1..Len(UpperChars) : UpperChars[i] = c]
  ELSE c

\* str.lower()
Lower(s) == [i \in 1..Len(s) |-> LowerChar(s[i])]

\* str.strip(): drop leading and trailing whitespace
Strip(s) ==
  LET keep == {i \in 1..Len(s) : s[i] \notin Whitespace}
  IN IF keep = {} THEN <<>>
     ELSE LET lo == CHOOSE i \in keep : \A j \in keep : i <= j
              hi == CHOOSE i \in keep : \A j \in keep : j <= i
          IN SubSeq(s, lo, hi)

\* self.valid_commands
valid_commands ==
  { <<"o","n","e">>, <<"t","w","o">>, <<"t","h","r","e","e">>,
    <<"f","o","u","r">>, <<"f","i","v","e">>, <<"h","o","m","e">> }

\* mappings with the valid command 'five' as a key
mappings_shadow ==
  { << <<"1">>, <<"o","n","e">> >>, << <<"i">>, <<"o","n","e">> >>,
    << <<"l">>, <<"o","n","e">> >>,
    << <<"2">>, <<"t","w","o">> >>, << <<"t","o">>, <<"t","w","o">> >>,
    << <<"t","o","o">>, <<"t","w","o">> >>,
    << <<"3">>, <<"t","h","r","e","e">> >>,
    << <<"t","r","e","e">>, <<"t","h","r","e","e">> >>,
    << <<"4">>, <<"f","o","u","r">> >>, << <<"f","o","r">>, <<"f","o","u","r">> >>,
    << <<"5">>, <<"f","i","v","e">> >>, << <<"s">>, <<"f","i","v","e">> >>,
    << <<"f","i","v","e">>, <<"f","o","u","r">> >>,
    << <<"0">>, <<"h","o","m","e">> >>,
    << <<"z","e","r","o">>, <<"h","o","m","e">> >>,
    << <<"o">>, <<"h","o","m","e">> >> }

\* the dict mappings of _clean_command, as a set of (key, value) pairs
mappings ==
  { << <<"1">>, <<"o","n","e">> >>, << <<"i">>, <<"o","n","e">> >>,
    << <<"l">>, <<"o","n","e">> >>,
    << <<"2">>, <<"t","w","o">> >>, << <<"t","o">>, <<"t","w","o">> >>,
    << <<"t","o","o">>, <<"t","w","o">> >>,
    << <<"3">>, <<"t","h","r","e","e">> >>,
    << <<"t","r","e","e">>, <<"t","h","r","e","e">> >>,
    << <<"4">>, <<"f","o","u","r">> >>, << <<"f","o","r">>, <<"f","o","u","r">> >>,
    << <<"5">>, <<"f","i","v","e">> >>, << <<"s">>, <<"f","i","v","e">> >>,
    << <<"0">>, <<"h","o","m","e">> >>,
    << <<"z","e","r","o">>, <<"h","o","m","e">> >>,
    << <<"o">>, <<"h","o","m","e">> >> }

\* mappings.get(cleaned, cleaned)
MappingsGet(cleaned) ==
  IF \E m \in mappings : m[1] = cleaned
  THEN (CHOOSE m \in mappings : m[1] = cleaned)[2]
  ELSE cleaned

\* the value of F at x, with x evaluated once
Apply(F(_), x) == CHOOSE r \in {F(v) : v \in {x}} : TRUE

\* CleanCommand without lower()
CleanCommand_noLower(command) ==
  IF ~Truthy(command) THEN None
  ELSE Apply(MappingsGet, Apply(Strip, command))

\* _clean_command: mappings.get(cleaned, cleaned) of str(command).lower().strip()
CleanCommand(command) ==
  IF ~Truthy(command) THEN None
  ELSE Apply(MappingsGet, Apply(Strip, Apply(Lower, command)))

\* Accepted without the membership test
Accepted_anyText(cleaned) == Truthy(cleaned)

\* add_command accepts the cleaned command
Accepted(cleaned) == Truthy(cleaned) /\ cleaned \in valid_commands

Abs(x) == IF x < 0 THEN -x ELSE x

\* the raw tokens the monitor threads hand to add_command
RawTokens ==
  { <<"t","w","o">>, <<"T","o","o"," ">>, <<"t","h","r","e","e">>,
    <<"x","y","z">>, <<>> }

(***************************************************************************)
(* State.                                                                  *)
(***************************************************************************)
Sources == {"VOICE", "OCR", "GUI"}
Cleaner == "CLEANUP"
Threads == Sources \cup {Cleaner}
NoThread == "none"

VARIABLES
  voice_command, voice_time, ocr_command, ocr_time,  \* the two slots
  stats,         \* self.stats
  lock,          \* holder of self.lock, or NoThread
  now,           \* time.time()
  pc,            \* position of each monitor thread in add_command, and of
                 \* the cleanup thread in _cleanup_loop
  arg,           \* the command argument of the thread's add_command call
  calls,         \* number of add_command calls made
  events,        \* the MATCH lines printed: command and both timestamps
  lastSubmit,    \* source and argument of the latest add_command executed
  repeated,      \* the latest add_command had the source and argument of the
                 \* one before it
  lastObs,       \* per slot, the latest observation add_command accepted
  dispatched     \* the _execute_command calls in order: the command passed,
                 \* whether the arm controller raised, and the value of
                 \* success in _check_match ("pending" until it is assigned)

\* per monitor thread: a match was being dispatched when the thread made its
\* latest add_command call
VARIABLES overlap

\* HRCMainSystem, its child processes and the main thread
VARIABLES
  mainpc,        \* main thread: "init" before start_everything, "monitor" in
                 \* monitor_and_restart, "stopped" after stop_everything,
                 \* "exited" when the program has ended
  entry,         \* "main": main() installed signal_handler before run();
                 \* "run": HRCMainSystem().run() with the default handlers
  launchable,    \* the scripts that exist and that Popen can start
  processes,     \* self.processes: name -> handle (number of the Popen object)
  live,          \* names whose registered process has not exited
  strays,        \* <<name, handle>> of the running child processes whose
                 \* handle self.processes no longer holds
  readers,       \* <<name, handle>> of every _monitor_process thread started
  running,       \* self.running
  monitoring,    \* output_monitor.monitoring
  stopLog,       \* per name, the line stop_everything printed for it
  finalStats     \* the "Final Stats" printed by stop_everything, if any

\* the argument and the result of one _clean_command / validity evaluation
VARIABLES norm_in, norm_out

\* the pipes of the child processes and the loops of the daemon threads
VARIABLES
  pipe,          \* per name, the lines its process has written to stdout and
                 \* _monitor_process has not read
  nwritten,      \* number of lines written so far
  rpc,           \* per name, the position of _monitor_process: "test" at the
                 \* loop condition, "readline", "ended"
  sink,          \* the lines _process_line printed, with their source
  statspc        \* position of _stats_loop: "sleep", "done"

sup == <<mainpc, entry, launchable, processes, live, strays, readers, running,
         monitoring, stopLog, finalStats>>
norm == <<norm_in, norm_out>>
loops == <<pipe, nwritten, rpc, sink, statspc>>

vars == <<voice_command, voice_time, ocr_command, ocr_time, stats, lock, now,
          pc, arg, calls, events, lastSubmit, repeated, lastObs, dispatched,
          overlap, sup, norm, loops>>

history == <<events, lastSubmit, repeated, lastObs, overlap>>

slots == <<voice_command, voice_time, ocr_command, ocr_time>>

NoSubmit == [source |-> "", command |-> None]
NoObs == [command |-> None, time |-> 0]

\* start_monitoring: one _monitor_process thread per entry of the dict
StartMonitoring(procs) == {<<n, procs[n]>> : n \in DOMAIN procs}

\* the state after start_everything has started all three scripts
SupStarted ==
  /\ mainpc = "monitor"
  /\ entry = "main"
  /\ launchable = Sources
  /\ processes = [n \in Sources |-> 0]
  /\ live = Sources
  /\ strays = {}
  /\ readers = StartMonitoring([n \in Sources |-> 0])
  /\ running = TRUE
  /\ monitoring = TRUE
  /\ stopLog = [n \in Sources |-> ""]
  /\ finalStats = <<>>

NormIdle == norm_in = None /\ norm_out = None

\* pipes and loop positions where they are not followed: reading a line and
\* calling add_command is then the one step Call
LoopsIdle ==
  /\ pipe = [n \in Sources |-> <<>>]
  /\ nwritten = 0
  /\ rpc = [n \in Sources |-> "readline"]
  /\ sink = <<>>
  /\ statspc = "sleep"

\* CommandMatcher.__init__, with no add_command call made yet
MatcherInit ==
  /\ voice_command = None
  /\ voice_time = 0
  /\ ocr_command = None
  /\ ocr_time = 0
  /\ stats = [voice_commands |-> 0, ocr_commands |-> 0,
              matched_commands |-> 0, executed_commands |-> 0]
  /\ lock = NoThread
  /\ now = 0
  /\ arg = [s \in Sources |-> None]
  /\ calls = 0
  /\ events = {}
  /\ lastSubmit = NoSubmit
  /\ repeated = FALSE
  /\ lastObs = [s \in {"VOICE", "OCR"} |-> NoObs]
  /\ dispatched = <<>>
  /\ overlap = [s \in Sources |-> FALSE]

Init ==
  /\ SupStarted
  /\ LoopsIdle
  /\ NormIdle
  /\ MatcherInit
  /\ pc = [t \in Threads |-> IF t = Cleaner THEN "call" ELSE "idle"]

(***************************************************************************)
(* add_command                                                             *)
(***************************************************************************)
\* MatchFound with < in place of <=
MatchFound_strict(vc, vt, oc, ot) ==
  /\ Truthy(vc) /\ Truthy(oc)
  /\ vc = oc
  /\ Abs(vt - ot) < Timeout

\* MatchFound with the window counted twice
MatchFound_wide(vc, vt, oc, ot) ==
  /\ Truthy(vc) /\ Truthy(oc)
  /\ vc = oc
  /\ Abs(vt - ot) <= 2 * Timeout

\* MatchFound without the window
MatchFound_noWindow(vc, vt, oc, ot) ==
  /\ Truthy(vc) /\ Truthy(oc)
  /\ vc = oc

\* MatchFound without the comparison of the commands
MatchFound_anyCommand(vc, vt, oc, ot) ==
  /\ Truthy(vc) /\ Truthy(oc)
  /\ Abs(vt - ot) <= Timeout

\* the condition of _check_match on the four slot fields
MatchFound(vc, vt, oc, ot) ==
  /\ Truthy(vc) /\ Truthy(oc)
  /\ vc = oc
  /\ Abs(vt - ot) <= Timeout

\* the program has not ended: its daemon threads run
ProgramRuns == mainpc # "exited"

\* the loop condition of _monitor_process holds for a thread of name s: the
\* thread was started on the process now registered, which has not exited
Reading(s) ==
  /\ ProgramRuns
  /\ monitoring
  /\ s \in DOMAIN processes
  /\ <<s, processes[s]>> \in readers
  /\ s \in live

\* the slot add_command writes for a source
SlotOf_else(source) == IF source = "OCR" THEN "OCR" ELSE "VOICE"

SlotOf(source) ==
  IF source = "VOICE" THEN "VOICE" ELSE IF source = "OCR" THEN "OCR" ELSE "none"

\* a thread is in _execute_command
Dispatching == \E t \in Sources : pc[t] = "dispatching"

\* the monitor thread of process s reads a command line, calls
\* add_command(command, s) and waits for the lock
Call(s, command) ==
  /\ Reading(s)
  /\ pc[s] = "idle"
  /\ calls < MaxCalls
  /\ pc' = [pc EXCEPT ![s] = "waiting"]
  /\ arg' = [arg EXCEPT ![s] = command]
  /\ calls' = calls + 1
  /\ overlap' = [overlap EXCEPT ![s] = Dispatching]
  /\ UNCHANGED <<slots, stats, lock, now, events, lastSubmit, repeated, lastObs,
                 dispatched, sup, norm, loops>>

\* HolderDuringDispatch with the lock released before _execute_command
HolderDuringDispatch_released(s) == NoThread

\* the holder of self.lock while thread s is in _execute_command: the call
\* is inside the with block of add_command
HolderDuringDispatch(s) == s

\* PlusOne that counts down
PlusOne_down(n) == n - 1

\* self.stats[...] += 1
PlusOne(n) == n + 1

\* add_command from the lock acquisition up to the return, or up to the call
\* of _execute_command when the slots match
AddCommand(s) ==
  /\ ProgramRuns
  /\ pc[s] = "waiting"
  /\ lock = NoThread
  /\ now <= MaxStamp
  /\ lastSubmit' = [source |-> s, command |-> arg[s]]
  /\ repeated' = (lastSubmit = [source |-> s, command |-> arg[s]])
  /\ LET cleaned == Apply(CleanCommand, arg[s])
         vc == IF SlotOf(s) = "VOICE" THEN cleaned ELSE voice_command
         vt == IF SlotOf(s) = "VOICE" THEN now ELSE voice_time
         oc == IF SlotOf(s) = "OCR" THEN cleaned ELSE ocr_command
         ot == IF SlotOf(s) = "OCR" THEN now ELSE ocr_time
     IN IF ~Accepted(cleaned)
        THEN /\ pc' = [pc EXCEPT ![s] = "idle"]
             /\ arg' = [arg EXCEPT ![s] = None]
             /\ UNCHANGED <<slots, stats, lock, events, lastObs, dispatched>>
        ELSE /\ lastObs' = IF SlotOf(s) \in DOMAIN lastObs
                           THEN [lastObs EXCEPT ![SlotOf(s)] =
                                    [command |-> cleaned, time |-> now]]
                           ELSE lastObs
             /\ voice_command' = vc
             /\ voice_time' = vt
             /\ ocr_command' = oc
             /\ ocr_time' = ot
             /\ IF MatchFound(vc, vt, oc, ot)
                THEN /\ stats' = [stats EXCEPT
                            !.voice_commands = @ + (IF SlotOf(s) = "VOICE" THEN 1 ELSE 0),
                            !.ocr_commands = @ + (IF SlotOf(s) = "OCR" THEN 1 ELSE 0),
                            !.matched_commands = PlusOne(@)]
                     /\ events' = events \cup
                            {[command |-> vc, voice_time |-> vt, ocr_time |-> ot]}
                     /\ dispatched' = Append(dispatched,
                            [command |-> vc, raised |-> FALSE, success |-> "pending"])
                     /\ lock' = HolderDuringDispatch(s)
                     /\ pc' = [pc EXCEPT ![s] = "dispatching"]
                     /\ arg' = arg
                ELSE /\ stats' = [stats EXCEPT
                            !.voice_commands = @ + (IF SlotOf(s) = "VOICE" THEN 1 ELSE 0),
                            !.ocr_commands = @ + (IF SlotOf(s) = "OCR" THEN 1 ELSE 0)]
                     /\ pc' = [pc EXCEPT ![s] = "idle"]
                     /\ arg' = [arg EXCEPT ![s] = None]
                     /\ UNCHANGED <<lock, events, dispatched>>
  /\ UNCHANGED <<now, calls, overlap, sup, norm, loops>>

\* ResetSlots that forgets the voice slot
ResetSlots_keepVoice ==
  [voice_command |-> voice_command, ocr_command |-> None,
   voice_time |-> voice_time, ocr_time |-> 0]

\* ResetSlots that forgets the OCR slot
ResetSlots_keepOcr ==
  [voice_command |-> None, ocr_command |-> ocr_command,
   voice_time |-> 0, ocr_time |-> ocr_time]

\* the "Reset" block of _check_match
ResetSlots ==
  [voice_command |-> None, ocr_command |-> None, voice_time |-> 0, ocr_time |-> 0]

\* ExecuteCommand without the except clause
ExecuteCommand_noExcept(raised) == IF raised THEN "propagate" ELSE "True"

\* _execute_command: True, or False when the arm controller raised
ExecuteCommand(raised) == IF raised THEN "False" ELSE "True"

\* _execute_command ends, the arm controller having raised or not;
\* _check_match counts the success and resets the slots, and add_command
\* releases the lock.  An exception that left _execute_command would leave
\* _check_match and the with block of add_command, and be swallowed by the
\* except clause of _process_line.
ExecuteReturn(s, raised) ==
  /\ ProgramRuns
  /\ pc[s] = "dispatching"
  /\ LET success == ExecuteCommand(raised)
         n == Len(dispatched)
     IN IF success = "propagate"
        THEN /\ dispatched' = [dispatched EXCEPT ![n].raised = raised]
             /\ UNCHANGED <<slots, stats>>
        ELSE /\ dispatched' = [dispatched EXCEPT ![n].raised = raised,
                                                 ![n].success = success]
             /\ stats' = [stats EXCEPT !.executed_commands =
                                         @ + (IF success = "True" THEN 1 ELSE 0)]
             /\ voice_command' = ResetSlots.voice_command
             /\ ocr_command' = ResetSlots.ocr_command
             /\ voice_time' = ResetSlots.voice_time
             /\ ocr_time' = ResetSlots.ocr_time
  /\ lock' = NoThread
  /\ pc' = [pc EXCEPT ![s] = "idle"]
  /\ arg' = [arg EXCEPT ![s] = None]
  /\ UNCHANGED <<now, calls, history, sup, norm, loops>>

(***************************************************************************)
(* cleanup_old_commands, called by _cleanup_loop                           *)
(***************************************************************************)
\* Expired with >= in place of >
Expired_atWindow(slot_time, current_time) ==
  slot_time # 0 /\ current_time - slot_time >= Timeout

\* the condition under which cleanup_old_commands clears a slot
Expired(slot_time, current_time) ==
  slot_time # 0 /\ current_time - slot_time > Timeout

\* one iteration of _cleanup_loop up to time.sleep(5): cleanup_old_commands
CleanupOldCommands ==
  /\ ProgramRuns
  /\ running
  /\ pc[Cleaner] = "call"
  /\ lock = NoThread
  /\ IF Expired(voice_time, now)
     THEN voice_command' = None /\ voice_time' = 0
     ELSE UNCHANGED <<voice_command, voice_time>>
  /\ IF Expired(ocr_time, now)
     THEN ocr_command' = None /\ ocr_time' = 0
     ELSE UNCHANGED <<ocr_command, ocr_time>>
  /\ pc' = [pc EXCEPT ![Cleaner] = "sleep"]
  /\ UNCHANGED <<stats, lock, now, arg, calls, history, dispatched, sup, norm, loops>>

\* time.sleep(5) of _cleanup_loop returns
CleanupWake ==
  /\ ProgramRuns
  /\ pc[Cleaner] = "sleep"
  /\ pc' = [pc EXCEPT ![Cleaner] = "call"]
  /\ UNCHANGED <<slots, stats, lock, now, arg, calls, history, dispatched,
                 sup, norm, loops>>

\* the clock advances
Tick ==
  /\ now < MaxTime
  /\ now' = now + 1
  /\ UNCHANGED <<slots, stats, lock, pc, arg, calls, history, dispatched,
                 sup, norm, loops>>

Next ==
  \/ \E s \in Sources, command \in RawTokens : Call(s, command)
  \/ \E s \in Sources : AddCommand(s)
  \/ \E s \in Sources, raised \in BOOLEAN : ExecuteReturn(s, raised)
  \/ CleanupOldCommands
  \/ CleanupWake
  \/ Tick

Spec == Init /\ [][Next]_vars

\* _cleanup_loop keeps running, time passes, a thread that can take the lock
\* takes it, and every _execute_command call returns
LiveSpec ==
  /\ Spec
  /\ WF_vars(Tick)
  /\ WF_vars(CleanupOldCommands)
  /\ WF_vars(CleanupWake)
  /\ \A s \in Sources : WF_vars(AddCommand(s))
  /\ \A s \in Sources : WF_vars(\E raised \in BOOLEAN : ExecuteReturn(s, raised))

(***************************************************************************)
(* HRCMainSystem: start_everything, monitor_and_restart, stop_everything,  *)
(* and the signals.  The scripts that can be started are the same for the  *)
(* whole run.                                                              *)
(***************************************************************************)
matcher == <<slots, stats, lock, now, arg, calls, history, dispatched>>

\* the order of the keys of self.processes
StopOrder == <<"VOICE", "OCR", "GUI">>

Signals == {"SIGINT", "SIGTERM"}

\* the command tokens of the whole-system behaviours
SysTokens == { <<"t","w","o">> }

SysInit ==
  /\ mainpc = "init"
  /\ entry \in {"main", "run"}
  /\ launchable \in SUBSET Sources
  /\ processes = <<>>
  /\ live = {}
  /\ strays = {}
  /\ readers = {}
  /\ running = FALSE
  /\ monitoring = FALSE
  /\ stopLog = [n \in Sources |-> ""]
  /\ finalStats = <<>>
  /\ NormIdle
  /\ LoopsIdle
  /\ MatcherInit
  /\ pc = [t \in Threads |-> IF t = Cleaner THEN "unstarted" ELSE "idle"]

\* start_everything: a script is started when its file exists and Popen
\* succeeds; then the monitor threads, the flag and the cleanup thread
StartEverything ==
  /\ mainpc = "init"
  /\ processes' = [n \in launchable |-> 0]
  /\ live' = launchable
  /\ readers' = StartMonitoring(processes')
  /\ monitoring' = TRUE
  /\ running' = TRUE
  /\ pc' = [pc EXCEPT ![Cleaner] = "call"]
  /\ mainpc' = "monitor"
  /\ UNCHANGED <<matcher, entry, launchable, strays, stopLog, finalStats, norm,
                 loops>>

\* a child process exits on its own
ProcessExit(n) ==
  /\ mainpc = "monitor"
  /\ n \in live
  /\ processes[n] < MaxRestarts
  /\ live' = live \ {n}
  /\ UNCHANGED <<matcher, pc, mainpc, entry, launchable, processes, strays, readers,
                 running, monitoring, stopLog, finalStats, norm, loops>>

\* Supervising that goes on after stop_everything
Supervising_afterStop == mainpc \in {"monitor", "stopped"}

\* the main thread is in the loop of monitor_and_restart: "while self.running"
Supervising == mainpc = "monitor" /\ running

\* the handle monitor_and_restart stores for a name whose process died
Respawn(handle) == handle + 1

\* Polled that finds every process dead
Polled_always(n) == TRUE

\* "process.poll() is not None" for the registered process of name n
Polled(n) == n \notin live

\* one iteration of the loop of monitor_and_restart
PollHealth ==
  /\ Supervising
  /\ LET died == {n \in DOMAIN processes : Polled(n)}
     IN /\ processes' = [n \in DOMAIN processes |->
                           IF n \in died THEN Respawn(processes[n])
                           ELSE processes[n]]
        /\ live' = live \cup died
        /\ strays' = strays \cup {<<n, processes[n]>> : n \in died \cap live}
  /\ UNCHANGED <<matcher, pc, mainpc, entry, launchable, readers, running,
                 monitoring, stopLog, finalStats, norm, loops>>

\* a signal ends the program without stop_everything: under main() the
\* handler calls sys.exit(0), and the SystemExit is not the KeyboardInterrupt
\* monitor_and_restart catches; under run() alone SIGTERM kills the program
SignalExit(sig) ==
  /\ mainpc = "monitor"
  /\ entry = "main" \/ sig = "SIGTERM"
  /\ mainpc' = "exited"
  /\ UNCHANGED <<matcher, pc, entry, launchable, processes, live, strays, readers,
                 running, monitoring, stopLog, finalStats, norm, loops>>

\* StopOutcome without the kill
StopOutcome_noKill(ignores) == IF ignores THEN "TIMED OUT" ELSE "STOPPED"

\* StopOutcome without the except clauses
StopOutcome_raise(ignores) == IF ignores THEN "RAISED" ELSE "STOPPED"

\* the body of the loop of stop_everything for one process: terminate(),
\* wait(timeout=3), and kill() when the wait timed out
StopOutcome(ignores) == IF ignores THEN "FORCE KILLED" ELSE "STOPPED"

\* the loop of stop_everything from the i-th name on; stubborn are the
\* processes that do not exit within 3 seconds of terminate()
RECURSIVE StopLoop(_, _, _)
StopLoop(i, stubborn, log) ==
  IF i > Len(StopOrder) THEN log
  ELSE LET n == StopOrder[i]
       IN IF n \notin DOMAIN processes THEN StopLoop(i + 1, stubborn, log)
          ELSE LET outcome == StopOutcome(n \in stubborn)
               IN IF outcome = "RAISED"
                  THEN [log EXCEPT ![n] = outcome]
                  ELSE StopLoop(i + 1, stubborn, [log EXCEPT ![n] = outcome])

\* KeyboardInterrupt in monitor_and_restart (SIGINT with the default
\* handler), and stop_everything
StopEverything(stubborn) ==
  /\ mainpc = "monitor"
  /\ entry = "run"
  /\ stubborn \subseteq live
  /\ running' = FALSE
  /\ monitoring' = FALSE
  /\ stopLog' = StopLoop(1, stubborn, stopLog)
  /\ live' = {n \in live : stopLog'[n] \notin {"STOPPED", "FORCE KILLED"}}
  /\ IF \E n \in Sources : stopLog'[n] = "RAISED"
     THEN mainpc' = "exited" /\ finalStats' = finalStats
     ELSE mainpc' = "stopped" /\ finalStats' = <<stats>>
  /\ UNCHANGED <<matcher, pc, entry, launchable, processes, strays, readers, norm, loops>>

\* run() returns after stop_everything and the program ends
ProgramExit ==
  /\ mainpc = "stopped"
  /\ mainpc' = "exited"
  /\ UNCHANGED <<matcher, pc, entry, launchable, processes, live, strays, readers,
                 running, monitoring, stopLog, finalStats, norm, loops>>

\* WhileRunning that never ends the loop
WhileRunning_forever(flag) == TRUE

\* "while self.running" of _cleanup_loop and _stats_loop
WhileRunning(flag) == flag

\* _cleanup_loop finds self.running false and ends
CleanupExit ==
  /\ ProgramRuns
  /\ pc[Cleaner] = "call"
  /\ ~WhileRunning(running)
  /\ pc' = [pc EXCEPT ![Cleaner] = "done"]
  /\ UNCHANGED <<matcher, sup, norm, loops>>

SysCall(s, command) == calls < SysMaxCalls /\ Call(s, command)

SysTick == now < SysMaxTime /\ Tick

SysNext ==
  \/ StartEverything
  \/ \E n \in Sources : ProcessExit(n)
  \/ PollHealth
  \/ \E sig \in Signals : SignalExit(sig)
  \/ \E stubborn \in SUBSET Sources : StopEverything(stubborn)
  \/ ProgramExit
  \/ \E s \in Sources, command \in SysTokens : SysCall(s, command)
  \/ \E s \in Sources : AddCommand(s)
  \/ \E s \in Sources, raised \in BOOLEAN : ExecuteReturn(s, raised)
  \/ CleanupOldCommands
  \/ CleanupWake
  \/ CleanupExit
  \/ SysTick

SysSpec == SysInit /\ [][SysNext]_vars

(***************************************************************************)
(* _clean_command and the validity test of add_command as a function of    *)
(* the raw token: the canonical command, or Invalid.                       *)
(***************************************************************************)
\* the result of a token add_command rejects
Invalid == <<"<Invalid>">>

NormAlphabet == {"t", "o", "w", "T", " ", "1"}

\* the raw tokens: every string over NormAlphabet up to NormMaxLen, every
\* key of mappings, every valid command, and some in other case or padded
NormTokens ==
  UNION {[1..n -> NormAlphabet] : n \in 0..NormMaxLen}
  \cup {m[1] : m \in mappings}
  \cup valid_commands
  \cup { <<"Z","E","R","O">>, <<" ","F","i","v","e","\n">>,
         <<"\t","T","r","e","e"," "," ">>, <<"h","o","m","e","s">>,
         <<"f","o","u","r","4">>, <<"S">>, <<"\n">> }

NormInit ==
  /\ SupStarted
  /\ LoopsIdle
  /\ norm_in \in NormTokens
  /\ norm_out = None
  /\ MatcherInit
  /\ pc = [t \in Threads |-> IF t = Cleaner THEN "call" ELSE "idle"]

\* cleaned = self._clean_command(command), and the test of add_command
Normalize ==
  /\ norm_in # None
  /\ norm_out = None
  /\ LET cleaned == Apply(CleanCommand, norm_in)
     IN norm_out' = IF Accepted(cleaned) THEN cleaned ELSE Invalid
  /\ UNCHANGED <<matcher, pc, sup, norm_in, loops>>

NormNext == Normalize

NormSpec == NormInit /\ [][NormNext]_vars

(***************************************************************************)
(* The loops of the daemon threads: _monitor_process with the pipe of its  *)
(* process and _process_line, _cleanup_loop and _stats_loop, from the      *)
(* started system to its end.  The system was started without the GUI      *)
(* script, and a process that dies is not started again in these           *)
(* behaviours.                                                             *)
(***************************************************************************)
Marker == <<"[","C","O","M","M","A","N","D","]">>

\* the list noise of _is_noise
noise ==
  { <<"D","E","B","U","G",":">>,
    <<"I","N","F","O",":">>,
    <<"L","o","a","d","i","n","g">>,
    <<"F","r","a","m","e"," ","r","a","t","e",":">>,
    <<"B","u","f","f","e","r">> }

\* sub in line
Contains(line, sub) ==
  \E i \in 1..(Len(line) - Len(sub) + 1) : SubSeq(line, i, i + Len(sub) - 1) = sub

\* line.split(sep)[1], for a line that contains sep
SplitSecond(line, sep) ==
  LET starts(l) == {i \in 1..(Len(l) - Len(sep) + 1) :
                      SubSeq(l, i, i + Len(sep) - 1) = sep}
      first == CHOOSE i \in starts(line) : \A j \in starts(line) : i <= j
      rest == SubSeq(line, first + Len(sep), Len(line))
  IN IF starts(rest) = {} THEN rest
     ELSE SubSeq(rest, 1, (CHOOSE i \in starts(rest) :
                             \A j \in starts(rest) : i <= j) - 1)

\* the command _process_line hands to add_command, for a line with the marker
CommandOf(line) == Strip(SplitSecond(line, Marker))

\* _is_noise
IsNoise(line) == \E n \in noise : Contains(line, n)

\* _process_line prints the line
Printed(line) == ~IsNoise(line)

\* the lines the child processes write
LoopLineSeq ==
  << Marker \o <<" ","t","w","o">>,
    <<"I","N","F","O",":"," ">> \o Marker \o <<" ","T","o","o">>,
    <<"r","e","a","d","y">>,
    <<"L","o","a","d","i","n","g"," ","m","o","d","e","l">> >>

LoopLines == {LoopLineSeq[i] : i \in 1..Len(LoopLineSeq)}

LoopInit ==
  /\ mainpc = "monitor"
  /\ entry \in {"main", "run"}
  /\ launchable = {"VOICE", "OCR"}
  /\ processes = [n \in launchable |-> 0]
  /\ live = launchable
  /\ strays = {}
  /\ readers = StartMonitoring(processes)
  /\ running = TRUE
  /\ monitoring = TRUE
  /\ stopLog = [n \in Sources |-> ""]
  /\ finalStats = <<>>
  /\ NormIdle
  /\ MatcherInit
  /\ pc = [t \in Threads |-> IF t = Cleaner THEN "call" ELSE "idle"]
  /\ pipe = [n \in Sources |-> <<>>]
  /\ nwritten = 0
  /\ rpc = [n \in Sources |-> IF n \in launchable THEN "test" ELSE "unstarted"]
  /\ sink = <<>>
  /\ statspc = "sleep"

\* the process of name n writes a line to its stdout
WriteLine(n, line) ==
  /\ n \in live
  /\ nwritten < LoopMaxLines
  /\ pipe' = [pipe EXCEPT ![n] = Append(@, line)]
  /\ nwritten' = nwritten + 1
  /\ UNCHANGED <<matcher, pc, sup, norm, rpc, sink, statspc>>

\* "while self.monitoring and process.poll() is None"
LoopTest(n) ==
  /\ ProgramRuns
  /\ rpc[n] = "test"
  /\ pc[n] = "idle"
  /\ rpc' = [rpc EXCEPT ![n] = IF Reading(n) THEN "readline" ELSE "ended"]
  /\ UNCHANGED <<matcher, pc, sup, norm, pipe, nwritten, sink, statspc>>

\* readline() returns: with the next line of the pipe, which is stripped and
\* handed to _process_line, or with '' when the pipe is empty and the
\* process has exited; with an empty pipe of a running process it blocks.
\* _process_line calls add_command for a line with the marker, and prints
\* the line unless it is noise (the print is recorded with the call).
ReadLine(n) ==
  /\ ProgramRuns
  /\ rpc[n] = "readline"
  /\ pc[n] = "idle"
  /\ IF pipe[n] # <<>>
     THEN LET line == Apply(Strip, Head(pipe[n]))
              marked == Contains(line, Marker)
              command == IF marked THEN Apply(CommandOf, line) ELSE None
          IN /\ pipe' = [pipe EXCEPT ![n] = Tail(@)]
             /\ IF marked
                THEN /\ pc' = [pc EXCEPT ![n] = "waiting"]
                     /\ arg' = [arg EXCEPT ![n] = command]
                     /\ calls' = calls + 1
                     /\ overlap' = [overlap EXCEPT ![n] = Dispatching]
                ELSE UNCHANGED <<pc, arg, calls, overlap>>
             /\ sink' = IF Printed(line)
                        THEN Append(sink, [source |-> n, line |-> line])
                        ELSE sink
     ELSE /\ n \notin live
          /\ UNCHANGED <<pipe, pc, arg, calls, overlap, sink>>
  /\ rpc' = [rpc EXCEPT ![n] = "test"]
  /\ UNCHANGED <<slots, stats, lock, now, events, lastSubmit, repeated, lastObs,
                 dispatched, sup, norm,
                 nwritten, statspc>>

\* time.sleep(30) of _stats_loop returns, a copy of the statistics is
\* printed and the loop condition is evaluated
StatsReport ==
  /\ ProgramRuns
  /\ statspc = "sleep"
  /\ statspc' = IF WhileRunning(running) THEN "sleep" ELSE "done"
  /\ UNCHANGED <<matcher, pc, sup, norm, pipe, nwritten, rpc, sink>>

LoopTick == now < LoopMaxTime /\ Tick

LoopNext ==
  \/ \E n \in Sources, line \in LoopLines : WriteLine(n, line)
  \/ \E n \in Sources : LoopTest(n)
  \/ \E n \in Sources : ReadLine(n)
  \/ \E s \in Sources : AddCommand(s)
  \/ \E s \in Sources, raised \in BOOLEAN : ExecuteReturn(s, raised)
  \/ CleanupOldCommands
  \/ CleanupWake
  \/ CleanupExit
  \/ StatsReport
  \/ \E n \in Sources : ProcessExit(n)
  \/ \E sig \in Signals : SignalExit(sig)
  \/ \E stubborn \in SUBSET Sources : StopEverything(stubborn)
  \/ ProgramExit
  \/ LoopTick

LoopSpec == LoopInit /\ [][LoopNext]_vars

\* the loops with command lines only and the clock standing still: the
\* lines and the time decide what is matched and printed, not how the loops
\* go on
StopNext ==
  \/ \E n \in Sources : WriteLine(n, Head(LoopLineSeq))
  \/ \E n \in Sources : LoopTest(n)
  \/ \E n \in Sources : ReadLine(n)
  \/ \E s \in Sources : AddCommand(s)
  \/ \E s \in Sources, raised \in BOOLEAN : ExecuteReturn(s, raised)
  \/ CleanupOldCommands
  \/ CleanupWake
  \/ CleanupExit
  \/ StatsReport
  \/ \E n \in Sources : ProcessExit(n)
  \/ \E sig \in Signals : SignalExit(sig)
  \/ \E stubborn \in SUBSET Sources : StopEverything(stubborn)
  \/ ProgramExit

StopSpec == LoopInit /\ [][StopNext]_vars

\* every thread of the program that can take a step takes one
StopLiveSpec ==
  /\ StopSpec
  /\ \A n \in Sources : WF_vars(LoopTest(n))
  /\ \A n \in Sources : WF_vars(ReadLine(n))
  /\ \A s \in Sources : WF_vars(AddCommand(s))
  /\ \A s \in Sources : WF_vars(\E raised \in BOOLEAN : ExecuteReturn(s, raised))
  /\ WF_vars(CleanupOldCommands)
  /\ WF_vars(CleanupWake)
  /\ WF_vars(CleanupExit)
  /\ WF_vars(StatsReport)

(***************************************************************************)
(* Vocabulary of the properties.                                           *)
(***************************************************************************)
two == <<"t","w","o">>
SlotSources == {"VOICE", "OCR"}
Other(s) == IF s = "VOICE" THEN "OCR" ELSE "VOICE"
SlotCommand(s) == IF s = "VOICE" THEN voice_command ELSE ocr_command
SlotTime(s) == IF s = "VOICE" THEN voice_time ELSE ocr_time
Populated(s) == SlotCommand(s) # None

\* thread s executes the body of add_command in this step
Submits(s) == pc[s] = "waiting" /\ pc'[s] # "waiting"
\* the step fires a match
Fires == stats'.matched_commands = stats.matched_commands + 1
NoFire == /\ stats'.matched_commands = stats.matched_commands
          /\ events' = events
          /\ \A s \in Sources : pc'[s] # "dispatching"
\* thread s returns from _execute_command and add_command in this step
Returns(s) == pc[s] = "dispatching" /\ pc'[s] = "idle"
\* a sweep is executed in this step
Sweeps == pc[Cleaner] = "call" /\ pc'[Cleaner] = "sleep"

\* both slots hold the same command with times within the window
Agreeing ==
  /\ Truthy(voice_command) /\ Truthy(ocr_command)
  /\ voice_command = ocr_command
  /\ Abs(voice_time - ocr_time) <= Timeout

\* the monitor thread of name n takes a line from its pipe in this step
Reads(n) == rpc[n] = "readline" /\ rpc'[n] = "test" /\ pipe[n] # <<>>

\* every loop of a daemon thread has ended
LoopsEnded ==
  /\ pc[Cleaner] = "done"
  /\ statspc = "done"
  /\ \A n \in DOMAIN processes : rpc[n] = "ended"

\* the step is start_everything
Starts == mainpc = "init" /\ mainpc' # "init"

\* the step is one iteration of the loop of monitor_and_restart
Polls == mainpc = "monitor" /\ mainpc' = "monitor" /\ processes' # processes

\* the step is stop_everything
Stops == running /\ ~running'

(***************************************************************************)
(* C1: a submit fires a match if and only if, right after its slot write,  *)
(* both slots are populated, hold the same command, and their timestamps   *)
(* differ by at most the window.                                           *)
(***************************************************************************)
C1_MatchIffSlotsAgree ==
  [][\A s \in Sources :
       Submits(s) =>
         (Fires <=> /\ voice_command' # None
                    /\ ocr_command' # None
                    /\ voice_command' = ocr_command'
                    /\ voice_time' - ocr_time' <= Timeout
                    /\ ocr_time' - voice_time' <= Timeout)]_vars

\* a match was fired on timestamps exactly the window apart
C1_Witness ==
  \E e \in events : Abs(e.voice_time - e.ocr_time) = Timeout

(***************************************************************************)
(* C2: while a dispatch is in progress the matcher lock is free.           *)
(***************************************************************************)
C2_DispatchOutsideLock ==
  \A s \in Sources : pc[s] = "dispatching" => lock = NoThread

(***************************************************************************)
(* C3: a submit from one source whose command is the one the other slot    *)
(* holds, stamped at most the window later, fires exactly one match, and   *)
(* when the match has been handled both slots are empty.                   *)
(***************************************************************************)
C3_PairMatchesOnce ==
  [][/\ \A s \in SlotSources :
          ( /\ Submits(s)
            /\ Accepted(CleanCommand(arg[s]))
            /\ Populated(Other(s))
            /\ SlotCommand(Other(s)) = CleanCommand(arg[s])
            /\ Abs(now - SlotTime(Other(s))) <= Timeout )
          => Fires /\ pc'[s] = "dispatching"
     /\ \A s \in Sources :
          Returns(s) => /\ voice_command' = None /\ voice_time' = 0
                        /\ ocr_command' = None /\ ocr_time' = 0
                        /\ stats'.matched_commands = stats.matched_commands]_vars

\* speech "two", then the visual token "Too " the full window later: one
\* match, handled, both slots empty
C3_Witness ==
  /\ stats.matched_commands = 1
  /\ events = {[command |-> two, voice_time |-> 0, ocr_time |-> Timeout]}
  /\ lastSubmit = [source |-> "OCR", command |-> <<"T","o","o"," ">>]
  /\ voice_command = None /\ ocr_command = None
  /\ \A s \in Sources : pc[s] # "dispatching"

C5_EventWithinWindow ==
  \A e \in events : /\ e.voice_time - e.ocr_time <= Timeout
                    /\ e.ocr_time - e.voice_time <= Timeout

\* a match of observations taken at different times is being dispatched
\* while another submission waits for the lock
C5_Witness ==
  /\ \E e \in events : e.voice_time # e.ocr_time
  /\ \E s, t \in Sources : pc[s] = "dispatching" /\ pc[t] = "waiting"

(***************************************************************************)
(* C6: a submit whose token normalizes to no canonical command changes no  *)
(* slot, no timestamp and no counter, and fires no match and no dispatch.  *)
(***************************************************************************)
C6_InvalidRejected ==
  [][\A s \in Sources :
       (Submits(s) /\ CleanCommand(arg[s]) \notin valid_commands)
       => /\ UNCHANGED <<voice_command, voice_time, ocr_command, ocr_time>>
          /\ UNCHANGED stats
          /\ NoFire
          /\ pc'[s] = "idle"
          /\ lock' = NoThread]_vars

\* an unknown token was submitted by the voice thread while the OCR slot
\* was populated
C6_Witness ==
  /\ lastSubmit = [source |-> "VOICE", command |-> <<"x","y","z">>]
  /\ voice_command = None
  /\ ocr_command # None

(***************************************************************************)
(* C7: a submit that repeats the submit right before it (same source, same *)
(* token) fires no match and changes at most the slot of its source.       *)
(***************************************************************************)
C7_RepeatNoSecondMatch ==
  [][\A s \in Sources :
       (Submits(s) /\ lastSubmit = [source |-> s, command |-> arg[s]])
       => /\ NoFire
          /\ s # "VOICE" => UNCHANGED <<voice_command, voice_time>>
          /\ s # "OCR" => UNCHANGED <<ocr_command, ocr_time>>]_vars

\* the voice thread matched and then repeated its submission: counted
\* twice, matched once, the repeat sits in the voice slot
C7_Witness ==
  /\ repeated
  /\ lastSubmit.source = "VOICE"
  /\ stats.voice_commands = 2
  /\ stats.matched_commands = 1
  /\ voice_command # None
  /\ ocr_command = None

(***************************************************************************)
(* C8: a sweep clears every populated slot whose age exceeds the window,   *)
(* whatever its timestamp, 0 included.                                     *)
(***************************************************************************)
C8_SweepClearsStale ==
  [][Sweeps =>
       \A s \in SlotSources :
         (Populated(s) /\ now - SlotTime(s) > Timeout)
         => (SlotCommand(s))' = None]_vars

(***************************************************************************)
(* C9: with the sweep thread scheduled and every dispatch returning, a     *)
(* populated slot is eventually emptied once the input has stopped (every  *)
(* behaviour has at most MaxCalls submissions).                            *)
(***************************************************************************)
C9_SlotEventuallyEmptied ==
  /\ (voice_command # None) ~> (voice_command = None)
  /\ (ocr_command # None) ~> (ocr_command = None)

(***************************************************************************)
(* C10: when the dispatch of a match reports failure, the success counter  *)
(* is unchanged and a failure counter of the statistics increases by one.  *)
(***************************************************************************)
C10_FailureCounted ==
  [][\A s \in Sources :
       (Returns(s) /\ stats'.executed_commands = stats.executed_commands)
       => \E k \in DOMAIN stats \ {"matched_commands", "executed_commands"} :
            stats'[k] = stats[k] + 1]_vars

(***************************************************************************)
(* C11: when the arm controller raises during a dispatch, the exception is *)
(* turned into the result False: _check_match receives it, the submitting  *)
(* thread goes on with its loop and the matcher lock is released.          *)
(***************************************************************************)
C11_ExceptionBecomesFailure ==
  [][\A s \in Sources :
       (pc[s] = "dispatching" /\ pc'[s] # "dispatching"
          /\ dispatched'[Len(dispatched')].raised)
       => /\ dispatched'[Len(dispatched')].success = "False"
          /\ pc'[s] = "idle"
          /\ lock' = NoThread]_vars

\* the arm controller raised, and the thread that dispatched has made its
\* next add_command call
C11_Witness ==
  /\ dispatched # <<>>
  /\ dispatched[Len(dispatched)].raised
  /\ lastSubmit.source = "OCR"
  /\ pc["OCR"] = "waiting"
  /\ lock = NoThread

(***************************************************************************)
(* C12: a match causes one dispatch, of the command both slots hold; no    *)
(* other step dispatches, so a failed dispatch is not retried; when the    *)
(* match has been handled both slots are empty.                            *)
(***************************************************************************)
C12_OneDispatchPerMatch ==
  [][/\ Fires => /\ Len(dispatched') = Len(dispatched) + 1
                 /\ dispatched'[Len(dispatched')].command = voice_command'
                 /\ dispatched'[Len(dispatched')].command = ocr_command'
     /\ ~Fires => Len(dispatched') = Len(dispatched)
     /\ Len(dispatched') = stats'.matched_commands
     /\ \A s \in Sources :
          Returns(s) => voice_command' = None /\ ocr_command' = None]_vars

\* one match, dispatched once, failed, handled: the slots are empty and
\* nothing is dispatched again by the submissions that follow
C12_Witness ==
  /\ Len(dispatched) = 1
  /\ dispatched[1].success = "False"
  /\ stats.matched_commands = 1
  /\ stats.executed_commands = 0
  /\ calls = MaxCalls
  /\ \A s \in Sources : pc[s] = "idle"
  /\ voice_command = None /\ ocr_command # None

(***************************************************************************)
(* C13: the health poll that finds a registered process dead starts it     *)
(* again under its name, stores the new handle in place of the old one,    *)
(* and a restart counter increases by one.                                 *)
(***************************************************************************)
C13_RestartCounted ==
  [][\A n \in Sources :
       (Polls /\ n \in DOMAIN processes /\ n \notin live)
       => /\ n \in live'
          /\ processes'[n] # processes[n]
          /\ \E k \in DOMAIN stats : stats'[k] = stats[k] + 1]_vars

(***************************************************************************)
(* C14: the output of every running registered process is read by a        *)
(* monitor thread, also when the process was started by a restart.         *)
(***************************************************************************)
C14_EverySpawnWired ==
  \A n \in DOMAIN processes :
    (n \in live /\ monitoring) => <<n, processes[n]>> \in readers

(***************************************************************************)
(* C15: the program does not end from the monitoring loop, on SIGINT or    *)
(* SIGTERM, before stop_everything has stopped the processes and printed   *)
(* the final statistics.                                                   *)
(***************************************************************************)
C15_SignalStopsAndReports ==
  mainpc = "exited"
  => /\ finalStats # <<>>
     /\ ~running
     /\ \A n \in DOMAIN processes : stopLog[n] # ""

C17_EveryProcessAttempted ==
  [][Stops => \A n \in DOMAIN processes : stopLog'[n] # ""]_vars

\* the first process of the loop ignored terminate(), and the last was
\* still stopped
C17_Witness ==
  /\ DOMAIN processes = Sources
  /\ stopLog["VOICE"] = "FORCE KILLED"
  /\ stopLog["GUI"] = "STOPPED"

(***************************************************************************)
(* C18: start_everything starts every script that can be started and sets  *)
(* the system running whichever scripts are missing; the health poll       *)
(* restarts the registered ones; and while the voice or the OCR process is *)
(* not registered no match is counted, recorded or dispatched.             *)
(***************************************************************************)
C18_DegradedChannel ==
  [][/\ Starts => /\ DOMAIN processes' = launchable
                  /\ live' = launchable
                  /\ \A n \in launchable : <<n, processes'[n]>> \in readers'
                  /\ running'
                  /\ mainpc' = "monitor"
     /\ Polls => \A n \in DOMAIN processes : n \in live'
     /\ (\E c \in SlotSources : c \notin DOMAIN processes')
          => /\ NoFire
             /\ events' = {}
             /\ dispatched' = <<>>]_vars

\* the voice script is missing; the OCR process has reported a command,
\* died and been restarted, and the GUI process runs
C18_Witness ==
  /\ mainpc = "monitor"
  /\ running
  /\ DOMAIN processes = {"OCR", "GUI"}
  /\ ocr_command = two
  /\ processes["OCR"] = 1
  /\ live = {"OCR", "GUI"}
  /\ stats.matched_commands = 0

(***************************************************************************)
(* C19: the system does not enter its running state with no process        *)
(* started.                                                                *)
(***************************************************************************)
C19_NoChannelIsFault ==
  ~(mainpc = "monitor" /\ running /\ DOMAIN processes = {})

(***************************************************************************)
(* C20: the result for a raw token is decided by the token lower-cased and *)
(* trimmed: the value of the correction table when it is a key of the      *)
(* table, itself when it is a valid command, and Invalid otherwise (the    *)
(* empty token and the blank tokens included).                             *)
(***************************************************************************)
C20_Normalize ==
  norm_out # None
  => LET t == Strip(Lower(norm_in))
     IN /\ (\E m \in mappings : m[1] = t)
             => \E m \in mappings : m[1] = t /\ norm_out = m[2]
        /\ t \in valid_commands => norm_out = t
        /\ (t \notin valid_commands /\ ~\E m \in mappings : m[1] = t)
             => norm_out = Invalid
        /\ norm_out \in valid_commands \cup {Invalid}

\* a padded token in upper case was mapped by the table
C20_Witness ==
  /\ norm_in = <<" ", "T", "o">>
  /\ norm_out = two

(***************************************************************************)
(* C22: a state in which both slots hold the same command within the       *)
(* window exists only while the thread that found the match holds the lock *)
(* and dispatches; no add_command body and no sweep runs in such a state,  *)
(* and the slots change only by the reset of that thread.                  *)
(***************************************************************************)
C22_MatchedStateIsLocked ==
  [][Agreeing
     => \E s \in Sources :
          /\ lock = s
          /\ pc[s] = "dispatching"
          /\ \A t \in Sources : ~Submits(t)
          /\ ~Sweeps
          /\ slots' # slots => Returns(s)]_vars

\* a match is being dispatched by the OCR thread while the voice thread
\* waits for the lock and the cleanup thread is due
C22_Witness ==
  /\ Agreeing
  /\ lock = "OCR"
  /\ pc["VOICE"] = "waiting"
  /\ pc[Cleaner] = "call"

(***************************************************************************)
(* C23: no step of the system decreases or removes a counter of self.stats *)
(* (the counters that exist: voice, OCR, matched, executed).               *)
(***************************************************************************)
C23_CountersMonotone ==
  [][/\ DOMAIN stats' = DOMAIN stats
     /\ \A k \in DOMAIN stats : stats'[k] >= stats[k]]_vars

\* counters have grown, a process has been restarted and the final
\* statistics have been taken
C23_Witness ==
  /\ stats.voice_commands = 1
  /\ stats.ocr_commands = 1
  /\ stats.matched_commands = 1
  /\ \E n \in DOMAIN processes : processes[n] = 1
  /\ finalStats = <<stats>>

(***************************************************************************)
(* C24: an accepted submit of a slot source whose command differs from the *)
(* command in the other slot fires nothing and dispatches nothing; it      *)
(* stores its command and the time in its own slot and leaves the other    *)
(* slot as it was.  When its command equals the other slot's command and   *)
(* the other slot's time is within the window, it fires.                   *)
(***************************************************************************)
C24_MismatchNoMatch ==
  [][\A s \in SlotSources :
       (Submits(s) /\ Accepted(CleanCommand(arg[s])) /\ Populated(Other(s)))
       => IF SlotCommand(Other(s)) # CleanCommand(arg[s])
          THEN /\ NoFire
               /\ dispatched' = dispatched
               /\ IF s = "VOICE"
                  THEN /\ voice_command' = CleanCommand(arg[s])
                       /\ voice_time' = now
                       /\ UNCHANGED <<ocr_command, ocr_time>>
                  ELSE /\ ocr_command' = CleanCommand(arg[s])
                       /\ ocr_time' = now
                       /\ UNCHANGED <<voice_command, voice_time>>
          ELSE Abs(now - SlotTime(Other(s))) <= Timeout => Fires]_vars

\* voice said "two", then OCR showed "three": both are kept, nothing fired
C24_Witness ==
  /\ voice_command = two
  /\ ocr_command = <<"t","h","r","e","e">>
  /\ lastSubmit.source = "OCR"
  /\ events = {}
  /\ dispatched = <<>>
  /\ lock = NoThread

(***************************************************************************)
(* C26: from the moment stop_everything runs, no step starts a process:    *)
(* self.processes keeps its handles and no process becomes alive.          *)
(***************************************************************************)
C26_NoRespawnAfterStop ==
  [][(Stops \/ (~running /\ mainpc # "init"))
     => /\ processes' = processes
        /\ live' \subseteq live]_vars

\* stop_everything has stopped a process that had been restarted before,
\* and the program has not ended yet
C26_Witness ==
  /\ mainpc = "stopped"
  /\ ~running
  /\ \E n \in DOMAIN processes : processes[n] = 1 /\ stopLog[n] = "STOPPED"
  /\ live = {}

(***************************************************************************)
(* C28: no key of mappings is a valid command, every value of mappings is  *)
(* a valid command, and a valid command is cleaned to itself.              *)
(***************************************************************************)
C28_NoShadowing ==
  /\ \A m \in mappings : m[1] \notin valid_commands /\ m[2] \in valid_commands
  /\ (norm_in \in valid_commands /\ norm_out # None) => norm_out = norm_in

\* the valid command 'five' was cleaned
C28_Witness ==
  /\ norm_in = <<"f","i","v","e">>
  /\ norm_out = <<"f","i","v","e">>

(***************************************************************************)
(* C29: whenever the lock is free, a slot's command is None exactly when   *)
(* its time is 0.                                                          *)
(***************************************************************************)
C29_SlotAllOrNothing ==
  lock = NoThread
  => \A s \in SlotSources : (SlotCommand(s) = None) <=> (SlotTime(s) = 0)

(***************************************************************************)
(* C30: executed <= matched, 2 * matched <= voice + OCR, and matched is at *)
(* most the voice count and at most the OCR count.                         *)
(***************************************************************************)
C30_CounterRelations ==
  /\ stats.executed_commands <= stats.matched_commands
  /\ 2 * stats.matched_commands <= stats.voice_commands + stats.ocr_commands
  /\ stats.matched_commands <= stats.voice_commands
  /\ stats.matched_commands <= stats.ocr_commands

\* one match of one voice and one OCR observation, executed, and one more
\* OCR observation
C30_Witness ==
  /\ stats.matched_commands = 1
  /\ stats.executed_commands = 1
  /\ stats.voice_commands = 1
  /\ stats.ocr_commands = 2

(***************************************************************************)
(* C21: a line read with the marker has its command handed to add_command  *)
(* and is not printed; a line read without the marker is handed to nobody, *)
(* and is printed exactly when it contains no noise string.                *)
(***************************************************************************)
C21_OnePathPerLine ==
  [][\A n \in Sources :
       Reads(n)
       => LET line == Strip(Head(pipe[n]))
              entry_ == [source |-> n, line |-> line]
          IN IF Contains(line, Marker)
             THEN /\ pc'[n] = "waiting"
                  /\ arg'[n] = CommandOf(line)
                  /\ sink' = sink
             ELSE /\ pc'[n] = "idle"
                  /\ IF IsNoise(line) THEN sink' = sink
                     ELSE sink' = Append(sink, entry_)]_vars

(***************************************************************************)
(* C25: while monitoring is on, a monitor thread does not end with a       *)
(* command line of its process still unread in the pipe.                   *)
(***************************************************************************)
C25_ReadsUntilClose ==
  \A n \in DOMAIN processes :
    (rpc[n] = "ended" /\ monitoring)
    => \A i \in 1..Len(pipe[n]) : ~Contains(pipe[n][i], Marker)

(***************************************************************************)
(* C27: once stop_everything has cleared self.running, the cleanup loop,   *)
(* the stats loop and every monitor loop come to their end (or the program *)
(* ends, and its daemon threads with it).                                  *)
(***************************************************************************)
C27_LoopsTerminate ==
  (~running) ~> (LoopsEnded \/ mainpc = "exited")

\* all loops have ended by themselves after a stop that had to kill a
\* process, with the program still there
C27_Witness ==
  /\ mainpc = "stopped"
  /\ LoopsEnded
  /\ \E n \in DOMAIN processes : stopLog[n] = "FORCE KILLED"
  /\ stats.matched_commands = 1

(***************************************************************************)
(* C31: a sweep leaves a slot whose age is at most the window as it is,    *)
(* and any slot it changes it empties, that slot being older than the      *)
(* window, whatever the other slot is; it changes no counter, fires no     *)
(* match and dispatches nothing.                                           *)
(***************************************************************************)
C31_SweepFrame ==
  [][Sweeps
     => /\ \A s \in SlotSources :
             \/ /\ (SlotCommand(s))' = SlotCommand(s)
                /\ (SlotTime(s))' = SlotTime(s)
             \/ /\ now - SlotTime(s) > Timeout
                /\ (SlotCommand(s))' = None
                /\ (SlotTime(s))' = 0
        /\ stats' = stats
        /\ NoFire
        /\ dispatched' = dispatched]_vars

\* a sweep has emptied the voice slot and left the OCR slot, whose age is
\* exactly the window
C31_Witness ==
  /\ pc[Cleaner] = "sleep"
  /\ lastObs["VOICE"].command # None
  /\ voice_command = None
  /\ ocr_command # None
  /\ now - ocr_time = Timeout
  /\ events = {}

(***************************************************************************)
(* C32: add_command with a valid command and the source GUI changes no     *)
(* slot and no counter, fires no match and dispatches nothing.             *)
(***************************************************************************)
C32_OtherSourceNoEffect ==
  [][\A s \in Sources \ SlotSources :
       (Submits(s) /\ CleanCommand(arg[s]) \in valid_commands)
       => /\ slots' = slots
          /\ stats' = stats
          /\ NoFire
          /\ dispatched' = dispatched
          /\ lock' = NoThread]_vars

\* the GUI thread submitted "two" while the voice slot held "two" and the
\* OCR slot held another command
C32_Witness ==
  /\ lastSubmit = [source |-> "GUI", command |-> two]
  /\ pc["GUI"] = "idle"
  /\ voice_command = two
  /\ ocr_command = <<"t","h","r","e","e">>
  /\ stats.matched_commands = 0

(***************************************************************************)
(* C33: a valid command that a voice or OCR thread hands to add_command    *)
(* while a match is being dispatched stays pending with that thread until  *)
(* its add_command body runs; the body runs when no dispatch is in         *)
(* progress, so after the reset of that match; it counts the observation   *)
(* once and leaves it in the slot of its source.                           *)
(***************************************************************************)
C33_ObservationDuringDispatchKept ==
  [][\A t \in SlotSources :
       (overlap[t] /\ pc[t] = "waiting" /\ Accepted(CleanCommand(arg[t])))
       => IF Submits(t)
          THEN /\ ~Dispatching
               /\ (SlotCommand(t))' = CleanCommand(arg[t])
               /\ (SlotTime(t))' = now
               /\ (SlotCommand(Other(t)))' = SlotCommand(Other(t))
               /\ stats'[IF t = "VOICE" THEN "voice_commands" ELSE "ocr_commands"]
                    = stats[IF t = "VOICE" THEN "voice_commands" ELSE "ocr_commands"] + 1
          ELSE /\ pc'[t] = "waiting"
               /\ arg'[t] = arg[t]
               /\ overlap'[t]
               /\ stats'[IF t = "VOICE" THEN "voice_commands" ELSE "ocr_commands"]
                    = stats[IF t = "VOICE" THEN "voice_commands" ELSE "ocr_commands"]]_vars

\* "three" came from the voice thread during the dispatch of a match on
\* "two"; the match has been handled and "three" is in the voice slot
C33_Witness ==
  /\ overlap["VOICE"]
  /\ pc["VOICE"] = "idle"
  /\ Len(dispatched) = 1
  /\ dispatched[1].command = two
  /\ dispatched[1].success = "True"
  /\ voice_command = <<"t","h","r","e","e">>
  /\ ocr_command = None
  /\ stats.voice_commands = 2

(***************************************************************************)
(* C34: the loop of monitor_and_restart stores a new handle only for a     *)
(* registered name whose process has exited, so no child process runs      *)
(* besides the registered one of its name; and after start_everything the  *)
(* set of registered names does not change.                                *)
(***************************************************************************)
C34_OneProcessPerName ==
  [][/\ \A n \in DOMAIN processes \cap DOMAIN processes' :
          processes'[n] # processes[n] => (Polls /\ n \notin live /\ n \in live')
     /\ strays' = {}
     /\ mainpc # "init" => DOMAIN processes' = DOMAIN processes
     /\ Starts => DOMAIN processes' = launchable]_vars

\* the voice process was restarted after it died, it is the one running
\* voice process, and the GUI, missing at startup, was not started since
C34_Witness ==
  /\ mainpc = "monitor"
  /\ "GUI" \notin DOMAIN processes
  /\ "VOICE" \in DOMAIN processes
  /\ processes["VOICE"] = 1
  /\ "VOICE" \in live
  /\ strays = {}
  /\ stats.voice_commands = 1

=============================================================================
